---- MODULE Spec2Model ----
(***************************************************************************)
(* A model of the wireless network design wizard: four scenario forms      *)
(* (digital chain, OFDM, link budget, cellular design), each with a        *)
(* parameter record, a result record and an optional AI explanation panel  *)
(* that sends one HTTP request per click.                                  *)
(*                                                                         *)
(* JavaScript numbers are IEEE-754 doubles.  They are modelled as decimal  *)
(* floating point numbers with 8 significant digits, with NaN, the two     *)
(* infinities and a signed zero, and with round-to-nearest after every     *)
(* operation: the special values behave as in IEEE-754, finite values are  *)
(* computed to 8 digits instead of 53 bits.                                *)
(***************************************************************************)
EXTENDS Integers, Sequences, FiniteSets, TLC

\* ------------------------------------------------------------------------
\* Numbers
\* ------------------------------------------------------------------------

\* A number is [k, s, m, e]: kind "fin" | "inf" | "nan", sign 1 | -1,
\* mantissa m (0, or MantLo <= m < MantHi) and decimal exponent e; a finite
\* number has the value s * m * 10^e.
MantLo == 10^7
MantHi == 10^8
ExpMax == 308 - 7
ExpMin == 0 - 324

NaN == [k |-> "nan", s |-> 1, m |-> 0, e |-> 0]

Infinity(s) == [k |-> "inf", s |-> s, m |-> 0, e |-> 0]

Zero(s) == [k |-> "fin", s |-> s, m |-> 0, e |-> 0]

IsNaN(x) == x.k = "nan"

IsInf(x) == x.k = "inf"

IsFinite(x) == x.k = "fin"

IsZero(x) == x.k = "fin" /\ x.m = 0

Abs(n) == IF n < 0 THEN 0 - n ELSE n

\* Rounds the magnitude m * 10^e to 8 significant digits (half away from
\* zero); overflows to an infinity and underflows to a signed zero.
RECURSIVE Normalize(_, _, _)
Normalize(s, m, e) ==
    IF m = 0 THEN Zero(s)
    ELSE IF m >= MantHi THEN Normalize(s, (m + 5) \div 10, e + 1)
    ELSE IF m < MantLo THEN Normalize(s, m * 10, e - 1)
    ELSE IF e > ExpMax THEN Infinity(s)
    ELSE IF e < ExpMin THEN Zero(s)
    ELSE [k |-> "fin", s |-> s, m |-> m, e |-> e]

\* The number literal n / 10^d, e.g. Dec(3244, 2) is 32.44.
Dec(n, d) == Normalize(IF n < 0 THEN -1 ELSE 1, Abs(n), 0 - d)

Whole(n) == Dec(n, 0)

Neg(x) == [x EXCEPT !.s = 0 - x.s]

Pow10(n) == 10^n

\* The element of a singleton set.  The({e(v) : v \in {d}}) is e with v
\* standing for the value of d.
The(S) == CHOOSE v \in S : TRUE

\* The mantissa m, times ten, moved d digits to the right and rounded
Aligned(m, d) ==
    IF d > 9 THEN 0
    ELSE IF d = 0 THEN m * 10
    ELSE (m + (5 * Pow10(d - 1)) \div 10) \div Pow10(d - 1)

\* The number t * 10^e for an integer t
Signed(t, e) ==
    IF t = 0 THEN Zero(1) ELSE Normalize(IF t < 0 THEN -1 ELSE 1, Abs(t), e)

\* hi + lo for finite numbers that are not zero, hi.e >= lo.e; the sum is
\* taken with one guard digit
AddAligned(hi, lo) ==
    Signed(hi.s * hi.m * 10 + lo.s * Aligned(lo.m, hi.e - lo.e), hi.e - 1)

\* x + y
NumAdd(x, y) ==
    IF IsNaN(x) \/ IsNaN(y) THEN NaN
    ELSE IF IsInf(x) /\ IsInf(y) THEN (IF x.s = y.s THEN x ELSE NaN)
    ELSE IF IsInf(x) THEN x
    ELSE IF IsInf(y) THEN y
    ELSE IF x.m = 0 /\ y.m = 0 THEN Zero(IF x.s = -1 /\ y.s = -1 THEN -1 ELSE 1)
    ELSE IF x.m = 0 THEN y
    ELSE IF y.m = 0 THEN x
    ELSE IF x.e >= y.e THEN AddAligned(x, y)
    ELSE AddAligned(y, x)

\* x - y
NumSub(x, y) == NumAdd(x, Neg(y))

\* x * y
NumMul(x, y) ==
    IF IsNaN(x) \/ IsNaN(y) THEN NaN
    ELSE IF (IsInf(x) /\ IsZero(y)) \/ (IsZero(x) /\ IsInf(y)) THEN NaN
    ELSE IF IsInf(x) \/ IsInf(y) THEN Infinity(x.s * y.s)
    ELSE IF x.m = 0 \/ y.m = 0 THEN Zero(x.s * y.s)
    ELSE LET h1 == x.m \div 10000
             l1 == x.m % 10000
             h2 == y.m \div 10000
             l2 == y.m % 10000
             \* x.m * y.m = A * 10^8 + B * 10^4 + C, taken to its leading digits
             A  == h1 * h2
             B  == h1 * l2 + h2 * l1
             C  == l1 * l2 + 5000000
             q  == A * 10 + (B + C \div 10000) \div 1000
         IN  Normalize(x.s * y.s, q, x.e + y.e + 7)

\* The long division m1 / m2 carried to n more digits: <<quotient, remainder>>.
RECURSIVE LongDiv(_, _, _, _)
LongDiv(q, r, m2, n) ==
    IF n = 0 THEN <<q, r>>
    ELSE LongDiv(q * 10 + (r * 10) \div m2, (r * 10) % m2, m2, n - 1)

\* x / y
NumDiv(x, y) ==
    IF IsNaN(x) \/ IsNaN(y) THEN NaN
    ELSE IF IsInf(x) /\ IsInf(y) THEN NaN
    ELSE IF IsInf(x) THEN Infinity(x.s * y.s)
    ELSE IF IsInf(y) THEN Zero(x.s * y.s)
    ELSE IF y.m = 0 THEN (IF x.m = 0 THEN NaN ELSE Infinity(x.s * y.s))
    ELSE IF x.m = 0 THEN Zero(x.s * y.s)
    ELSE LET qr == LongDiv(x.m \div y.m, x.m % y.m, y.m, 8)
             q  == IF 2 * qr[2] >= y.m THEN qr[1] + 1 ELSE qr[1]
         IN  Normalize(x.s * y.s, q, x.e - y.e - 8)

\* d > 0
Positive(d) == ~IsNaN(d) /\ d.s = 1 /\ (IsInf(d) \/ d.m > 0)

\* x > y (false when either is NaN)
NumGt(x, y) == ~IsNaN(x) /\ ~IsNaN(y) /\ Positive(NumSub(x, y))

\* x < y
NumLt(x, y) == NumGt(y, x)

\* x >= y
NumGe(x, y) == ~IsNaN(x) /\ ~IsNaN(y) /\ ~NumGt(y, x)

\* x == y on numbers (NaN equals nothing, the two zeros are equal)
NumEq(x, y) ==
    /\ ~IsNaN(x)
    /\ ~IsNaN(y)
    /\ \/ x = y
       \/ IsZero(x) /\ IsZero(y)

\* ToBoolean of a number: NaN and both zeros are falsy
Truthy(x) == ~IsNaN(x) /\ ~IsZero(x)

One == Whole(1)

Two == Whole(2)

Ten == Whole(10)

\* ------------------------------------------------------------------------
\* Math.*
\* ------------------------------------------------------------------------

\* Whether the finite number y is an integer, and whether it is an odd one.
IsInteger(y) ==
    /\ IsFinite(y)
    /\ \/ y.m = 0
       \/ y.e >= 0
       \/ y.e > -8 /\ y.m % Pow10(0 - y.e) = 0

IsOddInteger(y) ==
    /\ IsInteger(y)
    /\ y.m # 0
    /\ \/ y.e = 0 /\ y.m % 2 = 1
       \/ y.e < 0 /\ (y.m \div Pow10(0 - y.e)) % 2 = 1

\* The integer part of the magnitude of a finite x below 10^8 in magnitude.
IntPart(x) == IF x.e <= -8 THEN 0 ELSE x.m \div Pow10(0 - x.e)

\* Whether a finite x below 10^8 in magnitude has a fractional part.
HasFrac(x) == x.m # 0 /\ (x.e <= -8 \/ x.m % Pow10(0 - x.e) # 0)

\* Math.ceil
MathCeil(x) ==
    IF ~IsFinite(x) \/ x.m = 0 \/ x.e >= 0 THEN x
    ELSE IF x.s = 1 THEN Whole(IntPart(x) + (IF HasFrac(x) THEN 1 ELSE 0))
    ELSE Normalize(-1, IntPart(x), 0)

\* Math.floor
MathFloor(x) ==
    IF ~IsFinite(x) \/ x.m = 0 \/ x.e >= 0 THEN x
    ELSE IF x.s = 1 THEN Whole(IntPart(x))
    ELSE Normalize(-1, IntPart(x) + (IF HasFrac(x) THEN 1 ELSE 0), 0)

Square(y) == NumMul(y, y)

\* The binary digits of log_base(y) for 1 <= y < base, n of them, as an
\* integer, from y2 = y * y: take a digit whenever the square reaches the
\* base, and square again.
RECURSIVE LogFrac(_, _, _, _)
LogFrac(y2, base, n, acc) ==
    IF n = 0 THEN acc
    ELSE IF NumGe(y2, base)
    THEN LogFrac(Square(NumDiv(y2, base)), base, n - 1, 2 * acc + 1)
    ELSE LogFrac(Square(y2), base, n - 1, 2 * acc)

\* <<y, n>> with x = y * 2^n and 1 <= y < 2, for a finite x > 0.
RECURSIVE Log2Norm(_, _)
Log2Norm(y, n) ==
    IF NumGe(y, Two) THEN Log2Norm(NumDiv(y, Two), n + 1)
    ELSE IF NumLt(y, One) THEN Log2Norm(NumMul(y, Two), n - 1)
    ELSE <<y, n>>

\* Math.log10: NaN below zero, -Infinity at zero
MathLog10(x) ==
    IF IsNaN(x) THEN NaN
    ELSE IF IsZero(x) THEN Infinity(-1)
    ELSE IF x.s = -1 THEN NaN
    ELSE IF IsInf(x) THEN x
    ELSE NumAdd(Whole(x.e + 7),
                NumDiv(Whole(LogFrac(Square([x EXCEPT !.e = -7]), Ten, 26, 0)),
                       Whole(2^26)))

\* Math.log2: NaN below zero, -Infinity at zero
MathLog2(x) ==
    IF IsNaN(x) THEN NaN
    ELSE IF IsZero(x) THEN Infinity(-1)
    ELSE IF x.s = -1 THEN NaN
    ELSE IF IsInf(x) THEN x
    ELSE The({NumAdd(Whole(yn[2]),
                     NumDiv(Whole(LogFrac(Square(yn[1]), Two, 26, 0)), Whole(2^26))) :
              yn \in {Log2Norm(x, 0)}})

\* Newton's iteration for the square root of x from the guess g, n times.
RECURSIVE SqrtIter(_, _, _)
SqrtIter(x, g, n) ==
    IF n = 0 THEN g
    ELSE SqrtIter(x, NumDiv(NumAdd(g, NumDiv(x, g)), Two), n - 1)

\* Math.sqrt: NaN below zero
MathSqrt(x) ==
    IF IsNaN(x) THEN NaN
    ELSE IF IsZero(x) THEN x
    ELSE IF x.s = -1 THEN NaN
    ELSE IF IsInf(x) THEN x
    ELSE SqrtIter(x, [x EXCEPT !.m = MantLo, !.e = ((x.e + 7) \div 2) - 7], 12)

\* x^n for an integer n >= 0, by squaring
RECURSIVE PowInt(_, _)
PowInt(x, n) ==
    IF n = 0 THEN One
    ELSE IF n % 2 = 1 THEN NumMul(x, PowInt(x, n - 1))
    ELSE Square(PowInt(x, n \div 2))

\* The sum of t^k / k! from k on, term being t^k / k!, up to k = 24.
RECURSIVE ExpSeries(_, _, _)
ExpSeries(t, term, k) ==
    IF k > 24 \/ IsZero(term) THEN Zero(1)
    ELSE NumAdd(term, ExpSeries(t, NumDiv(NumMul(term, t), Whole(k + 1)), k + 1))

\* 10^L for a finite L: 10^floor(L) times e^(frac(L) * ln 10)
Exp10(L) ==
    IF L.m # 0 /\ L.e > -4 THEN (IF L.s = 1 THEN Infinity(1) ELSE Zero(1))
    ELSE The({The({Normalize(1, v.m, v.e + fl.s * IntPart(fl)) :
                   v \in {ExpSeries(NumMul(NumSub(L, fl), Dec(23025851, 7)), One, 0)}}) :
              fl \in {MathFloor(L)}})

\* Math.pow (Number::exponentiate)
MathPow(x, y) ==
    IF IsNaN(y) THEN NaN
    ELSE IF IsZero(y) THEN One
    ELSE IF IsNaN(x) THEN NaN
    ELSE IF IsInf(y) THEN
        (IF IsInf(x) THEN (IF y.s = 1 THEN Infinity(1) ELSE Zero(1))
         ELSE LET a == [x EXCEPT !.s = 1]
              IN  IF NumGt(a, One) THEN (IF y.s = 1 THEN Infinity(1) ELSE Zero(1))
                  ELSE IF NumLt(a, One) THEN (IF y.s = 1 THEN Zero(1) ELSE Infinity(1))
                  ELSE NaN)
    ELSE IF IsInf(x) THEN
        (IF y.s = 1 THEN Infinity(IF x.s = -1 /\ IsOddInteger(y) THEN -1 ELSE 1)
         ELSE Zero(IF x.s = -1 /\ IsOddInteger(y) THEN -1 ELSE 1))
    ELSE IF IsZero(x) THEN
        (IF y.s = 1 THEN Zero(IF x.s = -1 /\ IsOddInteger(y) THEN -1 ELSE 1)
         ELSE Infinity(IF x.s = -1 /\ IsOddInteger(y) THEN -1 ELSE 1))
    ELSE IF x.s = -1 /\ ~IsInteger(y) THEN NaN
    ELSE IF IsInteger(y) /\ y.e <= -5 THEN
        (IF y.s = 1 THEN PowInt(x, IntPart(y))
         ELSE NumDiv(One, PowInt(x, IntPart(y))))
    ELSE IF x.s = -1 /\ IsOddInteger(y)
    THEN Neg(Exp10(NumMul(y, MathLog10([x EXCEPT !.s = 1]))))
    ELSE Exp10(NumMul(y, MathLog10(x)))

\* ------------------------------------------------------------------------
\* Strings.  A text the user types is a sequence of one-character strings.
\* ------------------------------------------------------------------------

DigitChars == <<"0", "1", "2", "3", "4", "5", "6", "7", "8", "9">>

IsDigit(c) == \E i \in 1..10 : DigitChars[i] = c

DigitVal(c) == (CHOOSE i \in 1..10 : DigitChars[i] = c) - 1

IsWhiteSpace(c) == c \in {" ", "\t", "\n"}

\* The index of the first character of str at or after i that is no white space.
RECURSIVE SkipWhite(_, _)
SkipWhite(str, i) ==
    IF i <= Len(str) /\ IsWhiteSpace(str[i]) THEN SkipWhite(str, i + 1) ELSE i

\* Whether str holds the characters of lit from index i on.
StartsWith(str, i, lit) ==
    /\ i + Len(lit) - 1 <= Len(str)
    /\ \A j \in 1..Len(lit) : str[i + j - 1] = lit[j]

\* Reads the digits of str from index i on into the mantissa m:
\* <<next index, mantissa, digits taken, digits dropped, digits seen>>.
\* Digits past the ninth significant one are dropped.
RECURSIVE ScanDigits(_, _, _, _, _, _)
ScanDigits(str, i, m, taken, dropped, seen) ==
    IF i > Len(str) \/ ~IsDigit(str[i]) THEN <<i, m, taken, dropped, seen>>
    ELSE IF m < MantHi
         THEN ScanDigits(str, i + 1, m * 10 + DigitVal(str[i]), taken + 1, dropped, seen + 1)
         ELSE ScanDigits(str, i + 1, m, taken, dropped + 1, seen + 1)

\* The exponent part of a decimal literal at index j of str, 0 without one
ParseExponent(str, j) ==
    IF ~(j <= Len(str) /\ str[j] \in {"e", "E"}) THEN 0
    ELSE The({The({IF ex[5] = 0 THEN 0
                   ELSE IF signed /\ str[j + 1] = "-" THEN 0 - ex[2]
                   ELSE ex[2] :
                   ex \in {ScanDigits(str, IF signed THEN j + 2 ELSE j + 1, 0, 0, 0, 0)}}) :
              signed \in {j + 1 <= Len(str) /\ str[j + 1] \in {"+", "-"}}})

\* The literal of sign sgn at index i1 of str: Infinity, or integer digits
\* ip, fraction digits fp and an exponent
ParseLiteral(str, sgn, i1) ==
    IF StartsWith(str, i1, <<"I", "n", "f", "i", "n", "i", "t", "y">>) THEN Infinity(sgn)
    ELSE The({The({IF ip[5] + fp[5] = 0 THEN NaN
                   ELSE Normalize(sgn, fp[2],
                                  ip[4] - fp[3] + ParseExponent(str, fp[1])) :
                   fp \in {IF ip[1] <= Len(str) /\ str[ip[1]] = "."
                           THEN ScanDigits(str, ip[1] + 1, ip[2], 0, 0, 0)
                           ELSE <<ip[1], ip[2], 0, 0, 0>>}}) :
              ip \in {ScanDigits(str, i1, 0, 0, 0, 0)}})

\* parseFloat: the longest prefix of the trimmed text that is a decimal
\* literal (sign, digits, fraction, exponent, or Infinity); NaN without one.
parseFloat(str) ==
    The({ParseLiteral(str,
                      IF i0 <= Len(str) /\ str[i0] = "-" THEN -1 ELSE 1,
                      IF i0 <= Len(str) /\ str[i0] \in {"+", "-"} THEN i0 + 1 ELSE i0) :
         i0 \in {SkipWhite(str, 1)}})

\* n zeros
RECURSIVE Zeros(_)
Zeros(n) == IF n <= 0 THEN "" ELSE "0" \o Zeros(n - 1)

\* The number of decimal digits of n >= 0
RECURSIVE NumDigits(_)
NumDigits(n) == IF n < 10 THEN 1 ELSE 1 + NumDigits(n \div 10)

\* n >= 0 in decimal, with zeros in front up to the width w
PadLeft(n, w) == Zeros(w - NumDigits(n)) \o ToString(n)

\* The mantissa without its trailing zeros
RECURSIVE StripZeros(_)
StripZeros(m) == IF m # 0 /\ m % 10 = 0 THEN StripZeros(m \div 10) ELSE m

\* Number::toString of a finite number of magnitude 10^21 or more
ExponentialString(x) ==
    LET ds == StripZeros(x.m)
        k  == NumDigits(ds)
    IN  (IF x.s = -1 THEN "-" ELSE "")
        \o ToString(ds \div Pow10(k - 1))
        \o (IF k > 1 THEN "." \o PadLeft(ds % Pow10(k - 1), k - 1) ELSE "")
        \o "e+" \o ToString(x.e + 7)

\* Number.prototype.toFixed(fd): [threw, str].  A RangeError unless
\* 0 <= fd <= 100; NaN and the infinities print as their names.
toFixed(x, fd) ==
    IF fd < 0 \/ fd > 100 THEN [threw |-> TRUE, str |-> "RangeError"]
    ELSE IF IsNaN(x) THEN [threw |-> FALSE, str |-> "NaN"]
    ELSE IF IsInf(x) THEN
        [threw |-> FALSE, str |-> IF x.s = 1 THEN "Infinity" ELSE "-Infinity"]
    ELSE IF x.e > 13 THEN [threw |-> FALSE, str |-> ExponentialString(x)]
    ELSE LET sign == IF x.s = -1 /\ x.m # 0 THEN "-" ELSE ""
             frac == IF fd > 0 THEN "." ELSE ""
             k    == 0 - x.e
             r    == k - fd
             n    == IF r >= 9 THEN 0 ELSE (x.m + (5 * Pow10(r)) \div 10) \div Pow10(r)
         IN  [threw |-> FALSE,
              str   |-> IF x.m = 0 THEN "0" \o frac \o Zeros(fd)
                        ELSE IF x.e >= 0
                        THEN sign \o ToString(x.m) \o Zeros(x.e) \o frac \o Zeros(fd)
                        ELSE IF fd >= k
                        THEN sign \o ToString(IntPart(x)) \o frac
                             \o (IF k <= 8 THEN PadLeft(x.m % Pow10(k), k)
                                 ELSE PadLeft(x.m, k))
                             \o Zeros(fd - k)
                        ELSE IF fd = 0 THEN sign \o ToString(n)
                        ELSE IF fd >= 9 THEN sign \o "0" \o frac \o PadLeft(n, fd)
                        ELSE sign \o ToString(n \div Pow10(fd)) \o frac
                             \o PadLeft(n % Pow10(fd), fd)]

\* ------------------------------------------------------------------------
\* The four calculators: the body of each try block up to newResults
\* ------------------------------------------------------------------------

\* A division that throws on a zero divisor
DivideThrows_onZero(x, y) == IsZero(y)

\* The / operator never throws: a zero divisor gives an infinity or NaN.
DivideThrows(x, y) == FALSE

\* Math.log10, Math.log2, Math.sqrt and Math.pow never throw: outside their
\* domain they return NaN or an infinity.
MathThrows(x) == FALSE

\* The sampler rate taken from the sourceBitRate field
samplerRate_fromSourceBitRate(p) == p.sourceBitRate

\* samplerRate = samplingRate * quantizationBits
samplerRateOf(p) == NumMul(p.samplingRate, p.quantizationBits)

\* The burst formatter rate without the overhead of a burst
burstFormatterRate_noOverhead(interleaverRate, burstLength) == interleaverRate

\* burstFormatterRate = interleaverRate * (burstLength / (burstLength + 8.25))
burstFormatterRateOf(interleaverRate, burstLength) ==
    NumMul(interleaverRate, NumDiv(burstLength, NumAdd(burstLength, Dec(825, 2))))

\* WirelessCommunication.calculateRates: newResults.  Each constant of the
\* source is bound once, the later ones first in the text.
WirelessResults(p) ==
    The({The({The({
        [samplerRate        |-> samplerRate,
         quantizerRate      |-> samplerRate,
         sourceEncoderRate  |-> sourceEncoderRate,
         channelEncoderRate |-> channelEncoderRate,
         interleaverRate    |-> channelEncoderRate,
         burstFormatterRate |-> burstFormatterRateOf(channelEncoderRate, p.burstLength)] :
      channelEncoderRate \in {NumDiv(sourceEncoderRate, p.channelEncodingRatio)}}) :
      sourceEncoderRate \in {NumMul(samplerRate, p.sourceEncodingRatio)}}) :
      samplerRate \in {samplerRateOf(p)}})

\* Whether the try block of calculateRates throws on the way to r
WirelessThrows(p, r) ==
    \/ DivideThrows(r.sourceEncoderRate, p.channelEncodingRatio)
    \/ DivideThrows(p.burstLength, NumAdd(p.burstLength, Dec(825, 2)))

\* The resource element rate without the cyclic prefix
resourceElementRate_noPrefix(bitsPerResourceElement, p) ==
    NumMul(bitsPerResourceElement, NumDiv(Whole(1000), p.symbolDuration))

\* resourceElementRate =
\*   bitsPerResourceElement * (1000 / (symbolDuration * (1 + cyclicPrefixRatio)))
resourceElementRateOf(bitsPerResourceElement, p) ==
    NumMul(bitsPerResourceElement,
           NumDiv(Whole(1000),
                  NumMul(p.symbolDuration, NumAdd(One, p.cyclicPrefixRatio))))

\* OFDMSystem.calculateOFDM: newResults
OFDMResults(p) ==
    The({The({The({The({
        [resourceElementRate     |-> resourceElementRate,
         ofdmSymbolRate          |-> ofdmSymbolRate,
         resourceBlockRate       |-> resourceBlockRate,
         maxTransmissionCapacity |-> maxTransmissionCapacity,
         spectralEfficiency      |-> NumDiv(maxTransmissionCapacity, p.bandwidth)] :
      maxTransmissionCapacity \in {NumMul(resourceBlockRate, p.resourceBlocksParallel)}}) :
      resourceBlockRate \in {NumMul(ofdmSymbolRate, p.symbolsPerResourceBlock)}}) :
      ofdmSymbolRate \in {NumMul(resourceElementRate, p.resourceElementsPerSymbol)}}) :
      resourceElementRate \in
          {resourceElementRateOf(NumMul(MathLog2(p.modulationOrder), p.codingRate), p)}})

\* Whether the try block of calculateOFDM throws on the way to r
OFDMThrows(p, r) ==
    \/ MathThrows(p.modulationOrder)
    \/ DivideThrows(Whole(1000),
                    NumMul(p.symbolDuration, NumAdd(One, p.cyclicPrefixRatio)))
    \/ DivideThrows(r.maxTransmissionCapacity, p.bandwidth)

\* Link viability with the boundary included
isLinkViable_atZero(linkMargin) == NumGe(linkMargin, Zero(1))

\* isLinkViable = linkMargin > 0
isLinkViableOf(linkMargin) == NumGt(linkMargin, Zero(1))

\* LinkBudget.calculateLinkBudget: newResults
LinkBudgetResults(p) ==
    The({The({The({
        [eirp          |-> eirp,
         freeSpaceLoss |-> freeSpaceLoss,
         receivedPower |-> receivedPower,
         linkMargin    |-> linkMargin,
         isLinkViable  |-> isLinkViableOf(linkMargin)] :
      linkMargin \in
          {NumSub(NumSub(receivedPower, p.receiverSensitivity), p.fadeMargin)}}) :
      receivedPower \in
          {NumSub(NumAdd(NumSub(eirp, freeSpaceLoss), p.receiverGain), p.systemLoss)}}) :
      eirp \in {NumAdd(p.transmitterPower, p.transmitterGain)},
      freeSpaceLoss \in
          {NumAdd(NumAdd(NumMul(Whole(20), MathLog10(p.distance)),
                         NumMul(Whole(20), MathLog10(p.frequency))),
                  Dec(3244, 2))}})

\* Whether the try block of calculateLinkBudget throws on the way to r (its
\* toast formats linkMargin with toFixed(1))
LinkBudgetThrows(p, r) ==
    \/ MathThrows(p.distance)
    \/ MathThrows(p.frequency)
    \/ toFixed(r.linkMargin, 1).threw

\* cellRadius = 10^((maxPathLoss - 32.44 - 20 log10(frequency))
\*                  / (10 pathLossExponent)),
\* maxPathLoss = baseSationPower + mobilePower - shadowingMargin
\*               - interferenceMargin
cellRadiusOf(p) ==
    MathPow(Ten,
            NumDiv(NumSub(NumSub(NumSub(NumSub(NumAdd(p.baseSationPower, p.mobilePower),
                                               p.shadowingMargin),
                                        p.interferenceMargin),
                                 Dec(3244, 2)),
                          NumMul(Whole(20), MathLog10(p.frequency))),
                   NumMul(Ten, p.pathLossExponent)))

\* channelsPerCell = ceil(trafficePerCell + 3 sqrt(trafficePerCell) + 2)
channelsPerCellOf(trafficePerCell) ==
    MathCeil(NumAdd(NumAdd(trafficePerCell,
                           NumMul(Whole(3), MathSqrt(trafficePerCell))),
                    Two))

\* The capacity over the spectrum of one channel only
spectrumEfficiency_perChannel(cellCapacity, channelsPerCell) ==
    NumDiv(cellCapacity, Dec(2, 1))

\* spectrumEfficiency = cellCapacity / (channelsPerCell * 0.2)
spectrumEfficiencyOf(cellCapacity, channelsPerCell) ==
    NumDiv(cellCapacity, NumMul(channelsPerCell, Dec(2, 1)))

\* CellularDesign.calculateCellular: newResults
CellularResults(p) ==
    The({The({The({The({The({
        [cellRadius           |-> cellRadius,
         numberOfCells        |-> numberOfCells,
         trafficePerCell      |-> trafficePerCell,
         channelsPerCell      |-> channelsPerCell,
         cellCapacity         |-> cellCapacity,
         frequencyReuseFactor |->
             MathCeil(MathPow(NumDiv(NumMul(Whole(3), channelsPerCell), Whole(30)),
                              NumDiv(Two, Whole(3)))),
         spectrumEfficiency   |->
             spectrumEfficiencyOf(cellCapacity, channelsPerCell)] :
      cellCapacity \in {NumMul(channelsPerCell, NumSub(One, p.blockingProbability))}}) :
      channelsPerCell \in {channelsPerCellOf(trafficePerCell)}}) :
      trafficePerCell \in
          {NumDiv(NumDiv(NumMul(p.trafficDensity, p.callDuration), Whole(3600)),
                  numberOfCells)}}) :
      numberOfCells \in
          {MathCeil(NumDiv(p.coverageArea,
                           NumMul(Dec(2598, 3), MathPow(cellRadius, Two))))}}) :
      cellRadius \in {cellRadiusOf(p)}})

\* Whether the try block of calculateCellular throws on the way to r
CellularThrows(p, r) ==
    \/ MathThrows(p.frequency)
    \/ DivideThrows(p.trafficDensity, NumMul(Ten, p.pathLossExponent))
    \/ DivideThrows(p.coverageArea, r.cellRadius)
    \/ DivideThrows(r.trafficePerCell, r.numberOfCells)
    \/ MathThrows(r.trafficePerCell)
    \/ DivideThrows(r.cellCapacity, NumMul(r.channelsPerCell, Dec(2, 1)))

\* ------------------------------------------------------------------------
\* The scenarios and their initial parameter records (useState defaults)
\* ------------------------------------------------------------------------

Scenarios == {"wireless", "ofdm", "linkbudget", "cellular"}

WirelessDefaults ==
    [sourceBitRate        |-> Whole(64000),
     samplingRate         |-> Whole(8000),
     quantizationBits     |-> Whole(8),
     sourceEncodingRatio  |-> Dec(5, 1),
     channelEncodingRatio |-> Dec(75, 2),
     interleaverDepth     |-> Whole(4),
     burstLength          |-> Whole(148)]

OFDMDefaults ==
    [subcarrierSpacing         |-> Whole(15000),
     symbolDuration            |-> Dec(6667, 2),
     cyclicPrefixRatio         |-> Dec(7, 2),
     resourceElementsPerSymbol |-> Whole(12),
     symbolsPerResourceBlock   |-> Whole(14),
     resourceBlocksParallel    |-> Whole(100),
     modulationOrder           |-> Whole(4),
     codingRate                |-> Dec(5, 1),
     bandwidth                 |-> Whole(20000000)]

LinkBudgetDefaults ==
    [transmitterPower    |-> Whole(30),
     transmitterGain     |-> Whole(15),
     frequency           |-> Whole(2400),
     distance            |-> Whole(10),
     receiverGain        |-> Whole(12),
     systemLoss          |-> Whole(3),
     fadeMargin          |-> Whole(10),
     receiverSensitivity |-> Whole(-95)]

CellularDefaults ==
    [coverageArea        |-> Whole(100),
     trafficDensity      |-> Whole(50),
     callDuration        |-> Whole(120),
     blockingProbability |-> Dec(2, 2),
     frequency           |-> Whole(900),
     baseSationPower     |-> Whole(43),
     mobilePower         |-> Whole(33),
     pathLossExponent    |-> Dec(35, 1),
     shadowingMargin     |-> Whole(8),
     interferenceMargin  |-> Whole(3)]

Defaults(s) ==
    CASE s = "wireless"   -> WirelessDefaults
      [] s = "ofdm"       -> OFDMDefaults
      [] s = "linkbudget" -> LinkBudgetDefaults
      [] s = "cellular"   -> CellularDefaults

Fields(s) == DOMAIN Defaults(s)

\* newResults of the scenario's calculator for the parameter record p
NewResults(s, p) ==
    CASE s = "wireless"   -> WirelessResults(p)
      [] s = "ofdm"       -> OFDMResults(p)
      [] s = "linkbudget" -> LinkBudgetResults(p)
      [] s = "cellular"   -> CellularResults(p)

\* Whether the try block of the scenario's calculator throws for p on the
\* way to its newResults r
Throws(s, p, r) ==
    CASE s = "wireless"   -> WirelessThrows(p, r)
      [] s = "ofdm"       -> OFDMThrows(p, r)
      [] s = "linkbudget" -> LinkBudgetThrows(p, r)
      [] s = "cellular"   -> CellularThrows(p, r)

\* ------------------------------------------------------------------------
\* Notifications: toast({title, description, variant}); a description is the
\* sequence of the parts of its template literal
\* ------------------------------------------------------------------------

Toast(title, description, variant) ==
    [title |-> title, description |-> description, variant |-> variant]

\* The toast of a completed calculation
CompleteToast(s, r) ==
    CASE s = "wireless" ->
            Toast("Calculation Complete",
                  <<"Wireless communication system rates calculated successfully!">>,
                  "default")
      [] s = "ofdm" ->
            Toast("OFDM Calculation Complete",
                  <<"OFDM system parameters calculated successfully!">>, "default")
      [] s = "linkbudget" ->
            Toast("Link Budget Calculation Complete",
                  <<"Link is ", IF r.isLinkViable THEN "viable" ELSE "not viable",
                    " with ", toFixed(r.linkMargin, 1).str, " dB margin.">>,
                  "default")
      [] s = "cellular" ->
            Toast("Cellular Design Complete",
                  <<"Cellular network design parameters calculated successfully!">>,
                  "default")

\* The toast of the catch branch of a calculator
CalculationErrorToast ==
    Toast("Calculation Error",
          <<"Please check your input parameters and try again.">>, "destructive")

\* ------------------------------------------------------------------------
\* JSON values and the explanation service's responses
\* ------------------------------------------------------------------------

\* A JSON value is a tagged tuple; Undefined is JavaScript's undefined.
Undefined == <<"undefined">>

JNull == <<"null">>

JStr(str) == <<"string", str>>

JArr(seq) == <<"array", seq>>

JObj(rec) == <<"object", rec>>

Nullish(v) == v[1] \in {"undefined", "null"}

\* v.name for a v that is not nullish
Prop(v, name) ==
    IF v[1] = "object" /\ name \in DOMAIN v[2] THEN v[2][name] ELSE Undefined

\* v?.name
OptProp(v, name) == IF Nullish(v) THEN Undefined ELSE Prop(v, name)

\* v?.[i], i counted from 0
OptIndex(v, i) ==
    IF Nullish(v) THEN Undefined
    ELSE IF v[1] = "array" /\ i + 1 \in DOMAIN v[2] THEN v[2][i + 1]
    ELSE Undefined

\* ToBoolean of a JSON value
JTruthy(v) ==
    CASE Nullish(v)      -> FALSE
      [] v[1] = "string" -> v[2] # ""
      [] OTHER           -> TRUE

\* A generateContent answer whose first candidate's first part has the text
CandidatesJson(text) ==
    JObj([candidates |->
        JArr(<<JObj([content |->
            JObj([parts |-> JArr(<<JObj([text |-> JStr(text)])>>)])])>>)])

\* The response bodies of the model, as the service sends them
BodyA == "{\"candidates\":[{\"content\":{\"parts\":[{\"text\":\"A\"}]}}]}"

BodyB == "{\"candidates\":[{\"content\":{\"parts\":[{\"text\":\"B\"}]}}]}"

BodyEmptyText == "{\"candidates\":[{\"content\":{\"parts\":[{\"text\":\"\"}]}}]}"

BodyNoCandidates == "{}"

BodyNull == "null"

BodyHtml == "<html>Bad Gateway</html>"

BodyQuota == "{\"error\":{\"message\":\"quota exceeded\"}}"

\* response.json(): [ok, value]; ok is false when the body is no JSON text
\* (the promise rejects with a SyntaxError)
JSONParse(body) ==
    CASE body = BodyA -> [ok |-> TRUE, value |-> CandidatesJson("A")]
      [] body = BodyB -> [ok |-> TRUE, value |-> CandidatesJson("B")]
      [] body = BodyEmptyText -> [ok |-> TRUE, value |-> CandidatesJson("")]
      [] body = BodyNoCandidates -> [ok |-> TRUE, value |-> JObj(<<>>)]
      [] body = BodyNull -> [ok |-> TRUE, value |-> JNull]
      [] body = BodyQuota ->
            [ok |-> TRUE,
             value |-> JObj([error |-> JObj([message |-> JStr("quota exceeded")])])]
      [] OTHER -> [ok |-> FALSE, value |-> Undefined]

\* The responses the service gives in the model: a status and a body
Responses ==
    {[status |-> 200, body |-> BodyA],
     [status |-> 200, body |-> BodyB],
     [status |-> 200, body |-> BodyNoCandidates],
     [status |-> 200, body |-> BodyEmptyText],
     [status |-> 200, body |-> BodyHtml],
     [status |-> 200, body |-> BodyNull],
     [status |-> 429, body |-> BodyQuota]}

\* Every response taken as a success
ResponseOk_always(r) == TRUE

\* response.ok
ResponseOk(r) == r.status >= 200 /\ r.status <= 299

\* data.candidates?.[0]?.content?.parts?.[0]?.text for a data that is not
\* nullish
FirstTextPart(data) ==
    OptProp(OptIndex(OptProp(OptProp(OptIndex(Prop(data, "candidates"),
        0), "content"), "parts"), 0), "text")

\* The text part taken as it is, and the empty text without one
aiResponse_noFallback(text) == IF text[1] = "string" THEN text[2] ELSE ""

\* aiResponse: text || "No explanation available."
aiResponseOf(text) ==
    IF JTruthy(text) THEN text[2] ELSE "No explanation available."

\* The outcome of getExplanation once the body of a response is read:
\* [threw, message, explanation].  A status outside 2xx throws an Error
\* with the status and the body text; a body that is no JSON throws a
\* SyntaxError; data.candidates on null throws a TypeError.
ExplanationOutcome(r) ==
    LET parsed == JSONParse(r.body)
        data   == parsed.value
    IN  IF ~ResponseOk(r) THEN
            [threw |-> TRUE,
             message |-> <<"API request failed with status ", ToString(r.status),
                           ": ", r.body>>,
             explanation |-> ""]
        ELSE IF ~parsed.ok THEN
            [threw |-> TRUE,
             message |-> <<"Unexpected token in JSON">>,
             explanation |-> ""]
        ELSE IF Nullish(data) THEN
            [threw |-> TRUE,
             message |-> <<"Cannot read properties of null (reading 'candidates')">>,
             explanation |-> ""]
        ELSE [threw |-> FALSE,
              message |-> <<>>,
              explanation |-> aiResponseOf(FirstTextPart(data))]

\* The toast of the success path of getExplanation
GeneratedToast ==
    Toast("AI Explanation Generated",
          <<"The AI has provided a detailed explanation of your calculations.">>,
          "default")

\* The toast of the catch branch of getExplanation (every error thrown in
\* the try block is an instance of Error, so its message is shown)
ErrorToast(message) == Toast("Error", message, "destructive")

\* The toast of getExplanation without an API key
KeyRequiredToast ==
    Toast("API Key Required",
          <<"Please enter your Google Gemini API key to get AI explanations.">>,
          "destructive")

\* String.prototype.trim on a text
RECURSIVE TrimEnd(_)
TrimEnd(str) ==
    IF Len(str) > 0 /\ IsWhiteSpace(str[Len(str)])
    THEN TrimEnd(SubSeq(str, 1, Len(str) - 1))
    ELSE str

Trim(str) == TrimEnd(SubSeq(str, SkipWhite(str, 1), Len(str)))

\* scenario.toUpperCase()
ToUpperCase(s) ==
    CASE s = "wireless"   -> "WIRELESS"
      [] s = "ofdm"       -> "OFDM"
      [] s = "linkbudget" -> "LINKBUDGET"
      [] s = "cellular"   -> "CELLULAR"

\* generatePrompt: the scenario name in upper case, the entries of params
\* and the entries of results
generatePrompt(scenario, ps, rs) ==
    [scenario |-> ToUpperCase(scenario), params |-> ps, results |-> rs]

\* ------------------------------------------------------------------------
\* State
\* ------------------------------------------------------------------------

\* The field edits made in a scenario since it was mounted, at most
MaxEdits == 1

\* The explanation requests sent, at most
MaxRequests == 2

\* The texts typed into a numeric field
InputTexts ==
    {<<>>, <<"a", "b", "c">>, <<"0">>, <<"-", "2">>, <<"1", ".", "5">>}

\* The texts typed into the API key field
KeyTexts == {<<" ">>, <<"k">>}

VARIABLES
    activeTab,  \* Index: the scenario whose tab content is mounted
    params,     \* per scenario: its parameter record
    results,    \* per scenario: <<>> (null) or <<its result record>>
    showAI,     \* per scenario: whether the explanation panel is asked for
    edits,      \* field edits made in the mounted scenario
    toast,      \* <<>> or <<the latest notification>>
    panel,      \* <<>> or <<the state of the mounted AIExplanation>>
    requests,   \* the getExplanation calls awaiting the service's answer
    sent,       \* the number of getExplanation calls that reached fetch
    last        \* <<>> or <<the getExplanation call that completed last>>,
                \* with the titles of the toasts it showed

vars ==
    <<activeTab, params, results, showAI, edits, toast, panel, requests, sent, last>>

\* useState: a scenario mounts with its defaults, no results, the panel hidden
InitialParams == [s \in Scenarios |-> Defaults(s)]

TypeOK ==
    /\ activeTab \in Scenarios
    /\ DOMAIN params = Scenarios
    /\ DOMAIN results = Scenarios
    /\ showAI \in [Scenarios -> BOOLEAN]
    /\ edits \in 0..MaxEdits
    /\ Len(toast) <= 1
    /\ Len(panel) <= 1
    /\ Cardinality(requests) <= sent
    /\ sent \in 0..MaxRequests
    /\ Len(last) <= 1

Init ==
    /\ activeTab = "wireless"
    /\ params = InitialParams
    /\ results = [s \in Scenarios |-> <<>>]
    /\ showAI = [s \in Scenarios |-> FALSE]
    /\ edits = 0
    /\ toast = <<>>
    /\ panel = <<>>
    /\ requests = {}
    /\ sent = 0
    /\ last = <<>>

\* showAI && results: whether the scenario renders <AIExplanation>
Renders(sh, rs, s) == sh[s] /\ rs[s] # <<>>

\* A panel that mounts disabled while any request is in flight
FreshPanel_guarded ==
    <<[inst |-> sent, apiKey |-> <<>>, explanation |-> "",
       isLoading |-> requests # {}]>>

\* useState of AIExplanation: a freshly mounted panel.  An instance is named
\* by the number of requests sent before it mounted: two instances that
\* sent a request never share a name.
FreshPanel ==
    <<[inst |-> sent, apiKey |-> <<>>, explanation |-> "", isLoading |-> FALSE]>>

\* The panel after a render: kept while it stays rendered, fresh when it
\* starts to be rendered, gone (its state lost) when it no longer is.
PanelAfter(was, is) == IF ~is THEN <<>> ELSE IF was THEN panel ELSE FreshPanel

\* A state update applied to whichever panel is mounted
UpdatePanel_any(inst, new) == <<new>>

\* A state update of the instance that sent a request: React drops an
\* update of an instance that is no longer mounted.
UpdatePanel(inst, new) ==
    IF panel # <<>> /\ panel[1].inst = inst THEN <<new>> ELSE panel

\* ------------------------------------------------------------------------
\* Index: the tabs
\* ------------------------------------------------------------------------

\* setActiveTab: the content of the tab left is unmounted, and with it the
\* state of its scenario and of its explanation panel; the scenario of the
\* tab entered mounts with its defaults.
setActiveTab(t) ==
    /\ t # activeTab
    /\ activeTab' = t
    /\ params' = InitialParams
    /\ results' = [s \in Scenarios |-> <<>>]
    /\ showAI' = [s \in Scenarios |-> FALSE]
    /\ edits' = 0
    /\ panel' = <<>>
    /\ UNCHANGED <<toast, requests, sent, last>>

\* ------------------------------------------------------------------------
\* The scenario forms
\* ------------------------------------------------------------------------

\* parseFloat(value) without the fallback
ParseOnly(value) == parseFloat(value)

\* parseFloat(value) || 0
ParseOrZero(value) ==
    The({IF Truthy(v) THEN v ELSE Zero(1) : v \in {parseFloat(value)}})

\* A field edit that discards the results calculated before it
handleInputChange_clearing(s, field, value) ==
    /\ activeTab = s
    /\ edits < MaxEdits
    /\ edits' = edits + 1
    /\ params' = [params EXCEPT ![s][field] = ParseOrZero(value)]
    /\ results' = [results EXCEPT ![s] = <<>>]
    /\ showAI' = [showAI EXCEPT ![s] = FALSE]
    /\ panel' = <<>>
    /\ UNCHANGED <<activeTab, toast, requests, sent, last>>

\* handleInputChange(field, value)
handleInputChange(s, field, value) ==
    /\ activeTab = s
    /\ edits < MaxEdits
    /\ edits' = edits + 1
    /\ params' = [params EXCEPT ![s][field] = ParseOrZero(value)]
    /\ UNCHANGED <<activeTab, results, showAI, toast, panel, requests, sent, last>>

\* The try block of a calculator for the parameter record p: whether it
\* throws, and otherwise the record it stores and the toast it shows
TryCalculate(s, p) ==
    The({IF Throws(s, p, newResults)
         THEN [threw |-> TRUE, newResults |-> <<>>, toast |-> CalculationErrorToast]
         ELSE [threw |-> FALSE, newResults |-> <<newResults>>,
               toast |-> CompleteToast(s, newResults)] :
         newResults \in {NewResults(s, p)}})

\* The parameter records of scenario s within n field edits of its defaults
RECURSIVE ParamsWithin(_, _)
ParamsWithin(s, n) ==
    IF n = 0 THEN {Defaults(s)}
    ELSE LET before == ParamsWithin(s, n - 1)
         IN  before \cup {[p EXCEPT ![f] = ParseOrZero(v)] :
                             p \in before, f \in Fields(s), v \in InputTexts}

\* Parameter records with values typed by the user: the defaults, the
\* degenerate values, the boundary of the link margin
WirelessInputs ==
    {[sourceBitRate        |-> sb,
      samplingRate         |-> sr,
      quantizationBits     |-> Whole(8),
      sourceEncodingRatio  |-> se,
      channelEncodingRatio |-> ce,
      interleaverDepth     |-> id,
      burstLength          |-> bl] :
        sb \in {Whole(64000), Zero(1), Whole(128000)},
        sr \in {Whole(8000), Zero(1)},
        se \in {Dec(5, 1), Zero(1)},
        ce \in {Dec(75, 2), Zero(1)},
        id \in {Whole(4), Zero(1), Whole(-2)},
        bl \in {Whole(148), Dec(-825, 2)}}

OFDMInputs ==
    {[subcarrierSpacing         |-> ss,
      symbolDuration            |-> sd,
      cyclicPrefixRatio         |-> Dec(7, 2),
      resourceElementsPerSymbol |-> Whole(12),
      symbolsPerResourceBlock   |-> Whole(14),
      resourceBlocksParallel    |-> Whole(100),
      modulationOrder           |-> mo,
      codingRate                |-> Dec(5, 1),
      bandwidth                 |-> bw] :
        ss \in {Whole(15000), Zero(1), Whole(30000)},
        sd \in {Dec(6667, 2), Zero(1)},
        mo \in {Whole(4), Whole(64), Zero(1), Whole(-2)},
        bw \in {Whole(20000000), Zero(1)}}

LinkBudgetInputs ==
    {[transmitterPower    |-> tp,
      transmitterGain     |-> rest[1],
      frequency           |-> f,
      distance            |-> d,
      receiverGain        |-> rest[2],
      systemLoss          |-> rest[3],
      fadeMargin          |-> rest[4],
      receiverSensitivity |-> rs] :
        tp \in {Whole(30), Dec(3244, 2)},
        f \in {Whole(2400), Whole(1)},
        d \in {Whole(10), Whole(1), Zero(1), Whole(-2)},
        rest \in {<<Whole(15), Whole(12), Whole(3), Whole(10)>>,
                  <<Zero(1), Zero(1), Zero(1), Zero(1)>>},
        rs \in {Whole(-95), Zero(1)}}

CellularInputs ==
    {[coverageArea        |-> ca,
      trafficDensity      |-> Whole(50),
      callDuration        |-> Whole(120),
      blockingProbability |-> bp,
      frequency           |-> f,
      baseSationPower     |-> Whole(43),
      mobilePower         |-> Whole(33),
      pathLossExponent    |-> pl,
      shadowingMargin     |-> Whole(8),
      interferenceMargin  |-> Whole(3)] :
        ca \in {Whole(100), Zero(1)},
        bp \in {Dec(2, 2), Dec(1, 1), Whole(1), Dec(12345678, 8)},
        f \in {Whole(900), Zero(1)},
        pl \in {Dec(35, 1), Zero(1)}}

Inputs(s) ==
    CASE s = "wireless"   -> WirelessInputs
      [] s = "ofdm"       -> OFDMInputs
      [] s = "linkbudget" -> LinkBudgetInputs
      [] s = "cellular"   -> CellularInputs

\* TryCalculate tabulated over the parameter records of the model (the
\* table is a constant, evaluated once)
Calculated ==
    [s \in Scenarios |->
        [p \in ParamsWithin(s, MaxEdits) \cup Inputs(s) |-> TryCalculate(s, p)]]

\* A result record that is stored once and kept from then on
setResults_once(s, newResults) ==
    IF results[s] = <<>> THEN [results EXCEPT ![s] = newResults] ELSE results

\* A record that is added, field by field, to the record stored before
setResults_accumulate(s, newResults) ==
    IF results[s] = <<>> \/ newResults = <<>>
    THEN [results EXCEPT ![s] = newResults]
    ELSE [results EXCEPT ![s] =
            <<[f \in DOMAIN newResults[1] |->
                  IF f = "isLinkViable" THEN newResults[1][f]
                  ELSE NumAdd(newResults[1][f], results[s][1][f])]>>]

\* One result state that the four scenarios share
setResults_shared(s, newResults) == [t \in Scenarios |-> newResults]

\* setResults(newResults): the scenario's result state holds the new record
setResults(s, newResults) == [results EXCEPT ![s] = newResults]

\* A calculator that writes 1 into the fields it finds at 0
ParamsAfterCalculate_clamped(s) ==
    [params EXCEPT ![s] =
        [f \in Fields(s) |-> IF IsZero(params[s][f]) THEN One ELSE params[s][f]]]

\* params after a calculator has run: the calculators read the fields of
\* params and never call setParams or assign to a field
ParamsAfterCalculate(s) == params

\* calculateRates, calculateOFDM, calculateLinkBudget, calculateCellular
calculate(s) ==
    /\ activeTab = s
    /\ \E out \in {Calculated[s][params[s]]} :
          IF out.threw
          THEN /\ toast' = <<out.toast>>
               /\ UNCHANGED <<results, panel>>
          ELSE /\ results' = setResults(s, out.newResults)
               /\ toast' = <<out.toast>>
               /\ panel' = PanelAfter(Renders(showAI, results, s),
                                      Renders(showAI, results', s))
    /\ params' = ParamsAfterCalculate(s)
    /\ UNCHANGED <<activeTab, showAI, edits, requests, sent, last>>

\* A Show/Hide AI Explanation button that is always rendered
ToggleShown_always(s) == TRUE

\* {results && <Button ...>}: the Show/Hide AI Explanation button is
\* rendered once results exist
ToggleShown(s) == results[s] # <<>>

\* The Show/Hide AI Explanation button
toggleAI(s) ==
    /\ activeTab = s
    /\ ToggleShown(s)
    /\ showAI' = [showAI EXCEPT ![s] = ~showAI[s]]
    /\ panel' = PanelAfter(Renders(showAI, results, s), Renders(showAI', results, s))
    /\ UNCHANGED <<activeTab, params, results, edits, toast, requests, sent, last>>

\* ------------------------------------------------------------------------
\* AIExplanation
\* ------------------------------------------------------------------------

\* The API key field, shown while there is no explanation
setApiKey(value) ==
    /\ panel # <<>>
    /\ panel[1].explanation = ""
    /\ panel' = <<[panel[1] EXCEPT !.apiKey = value]>>
    /\ UNCHANGED <<activeTab, params, results, showAI, edits, toast, requests, sent, last>>

\* A button that only a request of the panel disables
ButtonDisabled_loadingOnly(p) == p.isLoading

\* A button that only a missing key disables
ButtonDisabled_keyOnly(p) == Trim(p.apiKey) = <<>>

\* disabled={isLoading || !apiKey.trim()}
ButtonDisabled(p) == p.isLoading \/ Trim(p.apiKey) = <<>>

\* A click on Get AI Explanation: getExplanation up to its await fetch.
\* A request in flight records the instance that sent it, the key of its URL
\* and the prompt of its body; overlapped tells whether another request was
\* in flight at some time while it was.
getExplanation ==
    /\ panel # <<>>
    /\ panel[1].explanation = ""
    /\ ~ButtonDisabled(panel[1])
    /\ sent < MaxRequests
    /\ IF Trim(panel[1].apiKey) = <<>>
       THEN /\ toast' = <<KeyRequiredToast>>
            /\ UNCHANGED <<panel, requests, sent>>
       ELSE /\ panel' = <<[panel[1] EXCEPT !.isLoading = TRUE]>>
            /\ sent' = sent + 1
            /\ requests' =
                  {[r EXCEPT !.overlapped = TRUE] : r \in requests} \cup
                  {[id         |-> sent + 1,
                    inst       |-> panel[1].inst,
                    key        |-> panel[1].apiKey,
                    prompt     |-> generatePrompt(activeTab, params[activeTab],
                                                  results[activeTab][1]),
                    overlapped |-> requests # {}]}
            /\ UNCHANGED toast
    /\ UNCHANGED <<activeTab, params, results, showAI, edits, last>>

\* A failure that also discards the scenario's results
Fails_clearing(r, message) ==
    /\ toast' = <<ErrorToast(message)>>
    /\ panel' = <<>>
    /\ last' = <<[id |-> r.id, inst |-> r.inst, overlapped |-> r.overlapped,
                  outcome |-> "error", text |-> "",
                  notified |-> <<ErrorToast(message).title>>]>>
    /\ results' = [s \in Scenarios |-> <<>>]
    /\ UNCHANGED <<params, showAI>>

\* A failure that is not shown to the user
Fails_silent(r, message) ==
    /\ panel' = IF panel = <<>> THEN panel
                ELSE UpdatePanel(r.inst, [panel[1] EXCEPT !.isLoading = FALSE])
    /\ last' = <<[id |-> r.id, inst |-> r.inst, overlapped |-> r.overlapped,
                  outcome |-> "error", text |-> "", notified |-> <<>>]>>
    /\ UNCHANGED <<toast, params, results, showAI>>

\* A failure without the finally block: isLoading is left as it is
Fails_stuck(r, message) ==
    /\ toast' = <<ErrorToast(message)>>
    /\ panel' = panel
    /\ last' = <<[id |-> r.id, inst |-> r.inst, overlapped |-> r.overlapped,
                  outcome |-> "error", text |-> "",
                  notified |-> <<ErrorToast(message).title>>]>>
    /\ UNCHANGED <<params, results, showAI>>

\* catch and finally of getExplanation for request r: the error toast, and
\* setIsLoading(false); the scenario is not touched
Fails(r, message) ==
    /\ toast' = <<ErrorToast(message)>>
    /\ panel' = IF panel = <<>> THEN panel
                ELSE UpdatePanel(r.inst, [panel[1] EXCEPT !.isLoading = FALSE])
    /\ last' = <<[id |-> r.id, inst |-> r.inst, overlapped |-> r.overlapped,
                  outcome |-> "error", text |-> "",
                  notified |-> <<ErrorToast(message).title>>]>>
    /\ UNCHANGED <<params, results, showAI>>

\* A request whose fetch was rejected is sent again
InFlightAfter_retry(r, response) ==
    IF response = <<>> /\ sent < MaxRequests
    THEN (requests \ {r}) \cup {[r EXCEPT !.id = sent + 1]}
    ELSE requests \ {r}

\* The requests in flight once r has its answer: getExplanation has no loop
\* and no second fetch, so whatever the answer r is over and nothing is sent
InFlightAfter(r, response) == requests \ {r}

\* The explanation service's answer to request r: fetch rejects (a
\* transport failure, response <<>>) or resolves with a response whose body
\* is then read.  Between its two awaits getExplanation changes no state,
\* so the two are one step; the rest of getExplanation follows.
settles(r, response) ==
    /\ r \in requests
    /\ requests' = InFlightAfter(r, response)
    /\ IF response = <<>> THEN Fails(r, <<"Failed to fetch">>)
       ELSE \E out \in {ExplanationOutcome(response[1])} :
                IF out.threw THEN Fails(r, out.message)
                ELSE /\ toast' = <<GeneratedToast>>
                     /\ panel' = IF panel = <<>> THEN panel
                                 ELSE UpdatePanel(r.inst,
                                          [panel[1] EXCEPT
                                              !.explanation = out.explanation,
                                              !.isLoading = FALSE])
                     /\ last' = <<[id |-> r.id, inst |-> r.inst,
                                   overlapped |-> r.overlapped,
                                   outcome |-> "success",
                                   text |-> out.explanation,
                                   notified |-> <<GeneratedToast.title>>]>>
                     /\ UNCHANGED <<params, results, showAI>>
    /\ UNCHANGED <<activeTab, edits, sent>>

\* A Generate New Explanation button that keeps the key
generateNew_keepingKey ==
    /\ panel # <<>>
    /\ panel[1].explanation # ""
    /\ panel' = <<[panel[1] EXCEPT !.explanation = ""]>>
    /\ UNCHANGED <<activeTab, params, results, showAI, edits, toast, requests, sent, last>>

\* The Generate New Explanation button, shown with an explanation
generateNew ==
    /\ panel # <<>>
    /\ panel[1].explanation # ""
    /\ panel' = <<[panel[1] EXCEPT !.explanation = "", !.apiKey = <<>>]>>
    /\ UNCHANGED <<activeTab, params, results, showAI, edits, toast, requests, sent, last>>

\* ------------------------------------------------------------------------
\* The specification of the application
\* ------------------------------------------------------------------------

\* The field edits of the specification: one field of each scenario
EditFields == {"samplingRate", "bandwidth", "distance", "coverageArea"}

EditTexts == {<<"0">>}

Next ==
    \/ \E t \in Scenarios : setActiveTab(t)
    \/ \E s \in Scenarios : \E f \in EditFields \cap Fields(s) : \E v \in EditTexts :
          handleInputChange(s, f, v)
    \/ \E s \in Scenarios : calculate(s)
    \/ \E s \in Scenarios : toggleAI(s)
    \/ \E v \in KeyTexts : setApiKey(v)
    \/ getExplanation
    \/ \E r \in requests : \E response \in Responses : settles(r, <<response>>)
    \/ \E r \in requests : settles(r, <<>>)
    \/ generateNew

Spec == Init /\ [][Next]_vars

\* ------------------------------------------------------------------------
\* The specification of the scenario forms: every field, every text typed
\* ------------------------------------------------------------------------

NextForm ==
    \/ \E t \in Scenarios : setActiveTab(t)
    \/ \E s \in Scenarios : \E f \in Fields(s) : \E v \in InputTexts :
          handleInputChange(s, f, v)
    \/ \E s \in Scenarios : calculate(s)
    \/ \E s \in Scenarios : toggleAI(s)

SpecForm == Init /\ [][NextForm]_vars

\* ------------------------------------------------------------------------
\* The specification of the calculators: a scenario whose fields hold
\* values typed by the user, and a click on its calculate button
\* ------------------------------------------------------------------------

InitCalc ==
    /\ activeTab \in Scenarios
    /\ \E p \in Inputs(activeTab) : params = [InitialParams EXCEPT ![activeTab] = p]
    /\ results = [s \in Scenarios |-> <<>>]
    /\ showAI = [s \in Scenarios |-> FALSE]
    /\ edits = MaxEdits
    /\ toast = <<>>
    /\ panel = <<>>
    /\ requests = {}
    /\ sent = 0
    /\ last = <<>>

NextCalc == \E s \in Scenarios : calculate(s)

SpecCalc == InitCalc /\ [][NextCalc]_vars

\* ------------------------------------------------------------------------
\* The specification of repeated clicks: a scenario whose fields are left
\* as they are, its calculate button and its explanation panel
\* ------------------------------------------------------------------------

\* The parameter records of scenario s left alone: the defaults, and the
\* defaults with one field at 0
RepeatInputs(s) ==
    {Defaults(s)} \cup
    {[Defaults(s) EXCEPT ![f] = ParseOrZero(v)] :
        f \in EditFields \cap Fields(s), v \in EditTexts}

InitRepeat ==
    /\ activeTab \in Scenarios
    /\ \E p \in RepeatInputs(activeTab) :
          params = [InitialParams EXCEPT ![activeTab] = p]
    /\ results = [s \in Scenarios |-> <<>>]
    /\ showAI = [s \in Scenarios |-> FALSE]
    /\ edits = MaxEdits
    /\ toast = <<>>
    /\ panel = <<>>
    /\ requests = {}
    /\ sent = 0
    /\ last = <<>>

NextRepeat ==
    \/ \E s \in Scenarios : calculate(s)
    \/ \E s \in Scenarios : toggleAI(s)
    \/ \E v \in KeyTexts : setApiKey(v)
    \/ getExplanation
    \/ \E r \in requests : \E response \in Responses : settles(r, <<response>>)
    \/ \E r \in requests : settles(r, <<>>)
    \/ generateNew

SpecRepeat == InitRepeat /\ [][NextRepeat]_vars

\* ------------------------------------------------------------------------
\* The same, with a network whose calls settle: the promise of every fetch
\* that was started is resolved or rejected in the end
\* ------------------------------------------------------------------------

\* The answer to one of the requests in flight
Settle ==
    \E r \in requests :
        \/ \E response \in Responses : settles(r, <<response>>)
        \/ settles(r, <<>>)

SpecLive == InitRepeat /\ [][NextRepeat]_vars /\ WF_vars(Settle)

\* ------------------------------------------------------------------------
\* Properties of the calculators
\* ------------------------------------------------------------------------

\* x > 0 read off the representation of x
StrictlyPositive(x) == x.s = 1 /\ (x.k = "inf" \/ (x.k = "fin" /\ x.m > 0))

\* |x - v| <= tol
Near(x, v, tol) ==
    \E d \in {NumSub(x, v)} : IsFinite(d) /\ ~NumGt([d EXCEPT !.s = 1], tol)

\* C1: in the link budget calculator the result's isLinkViable is true if
\* and only if the computed linkMargin is strictly greater than 0; a margin
\* of exactly 0, a negative margin and a NaN margin give isLinkViable = false.
C1_ViableIffMarginPositive ==
    results["linkbudget"] # <<>> =>
        LET r == results["linkbudget"][1]
        IN  r.isLinkViable <=> StrictlyPositive(r.linkMargin)

\* A link budget whose margin is exactly 0 has been calculated: not viable
C1_Witness ==
    /\ results["linkbudget"] # <<>>
    /\ IsZero(results["linkbudget"][1].linkMargin)
    /\ ~results["linkbudget"][1].isLinkViable

\* C2: after any sequence of field edits in any of the four scenarios every
\* field of the parameter record is a number and never NaN: it holds its
\* default or the number parsed from the text typed, and 0 when the text
\* typed cannot be parsed as a number.
C2_FieldsAreNumbers ==
    \A s \in Scenarios : \A f \in Fields(s) :
        /\ params[s][f].k \in {"fin", "inf"}
        /\ params[s][f] \in {Defaults(s)[f], Zero(1), Whole(-2), Dec(15, 1)}

\* A field whose default is not 0 holds 0 after an edit
C2_Witness ==
    /\ edits > 0
    /\ \E f \in Fields(activeTab) :
          /\ params[activeTab][f] = Zero(1)
          /\ Defaults(activeTab)[f] # Zero(1)

\* The fields the degenerate records are about
DegenerateFields ==
    {"frequency", "distance", "pathLossExponent", "bandwidth",
     "channelEncodingRatio", "modulationOrder"}

\* The mounted scenario's record is degenerate: one of these fields is <= 0
Degenerate ==
    \E f \in DegenerateFields \cap Fields(activeTab) :
        ~StrictlyPositive(params[activeTab][f])

\* C3: for every parameter record reachable through field edits, the
\* degenerate ones included, a click on calculate stores a result record and
\* does not take the catch branch: no "Calculation Error" notification.
C3_CalculateNeverFails ==
    [][\A s \in Scenarios :
          calculate(s) =>
              /\ results'[s] # <<>>
              /\ toast' # <<CalculationErrorToast>>
              /\ toast'[1].title # "Calculation Error"]_vars

\* A degenerate record has been calculated: its result record is stored
C3_Witness ==
    /\ Degenerate
    /\ results[activeTab] # <<>>
    /\ toast # <<>>
    /\ toast[1].title \in {"Calculation Complete", "OFDM Calculation Complete",
                           "Link Budget Calculation Complete",
                           "Cellular Design Complete"}
    /\ \E f \in DOMAIN results[activeTab][1] :
          f # "isLinkViable" /\ ~IsFinite(results[activeTab][1][f])

\* The digital chain's record of the literal scenario
C4_Literal ==
    LET p == params["wireless"]
    IN  /\ p.samplingRate = Whole(8000)
        /\ p.quantizationBits = Whole(8)
        /\ p.sourceEncodingRatio = Dec(5, 1)
        /\ p.channelEncodingRatio = Dec(75, 2)
        /\ p.burstLength = Whole(148)

\* C4 (as stated): for the literal scenario the result has samplerRate
\* 64000, sourceEncoderRate 32000, channelEncoderRate about 42666.67 and
\* burstFormatterRate about 40405.33.
C4_AsStated ==
    C4_Literal /\ results["wireless"] # <<>> =>
        LET r == results["wireless"][1]
        IN  /\ NumEq(r.samplerRate, Whole(64000))
            /\ NumEq(r.sourceEncoderRate, Whole(32000))
            /\ Near(r.channelEncoderRate, Dec(4266667, 2), Dec(1, 2))
            /\ Near(r.burstFormatterRate, Dec(4040533, 2), Dec(1, 2))

\* C4 (amended): for the digital chain with samplingRate 8000,
\* quantizationBits 8, sourceEncodingRatio 0.5, channelEncodingRatio 0.75 and
\* burstLength 148 the result has samplerRate 64000, sourceEncoderRate 32000,
\* channelEncoderRate about 42666.67 and burstFormatterRate about 40413.87
\* (42666.67 * 148 / 156.25).
C4_DigitalChainLiteral ==
    C4_Literal /\ results["wireless"] # <<>> =>
        LET r == results["wireless"][1]
        IN  /\ NumEq(r.samplerRate, Whole(64000))
            /\ NumEq(r.sourceEncoderRate, Whole(32000))
            /\ Near(r.channelEncoderRate, Dec(4266667, 2), Dec(1, 2))
            /\ Near(r.burstFormatterRate, Dec(4041387, 2), Dec(1, 2))

\* The literal scenario of the digital chain has been calculated
C4_Witness ==
    /\ C4_Literal
    /\ results["wireless"] # <<>>
    /\ params["wireless"] = WirelessDefaults

\* The OFDM record of the literal scenario
C5_Literal ==
    LET p == params["ofdm"]
    IN  /\ p.modulationOrder = Whole(4)
        /\ p.codingRate = Dec(5, 1)
        /\ p.symbolDuration = Dec(6667, 2)
        /\ p.cyclicPrefixRatio = Dec(7, 2)
        /\ p.resourceElementsPerSymbol = Whole(12)
        /\ p.symbolsPerResourceBlock = Whole(14)
        /\ p.resourceBlocksParallel = Whole(100)
        /\ p.bandwidth = Whole(20000000)

\* C5 (as stated): for the literal scenario the result has
\* resourceElementRate about 14.037, ofdmSymbolRate about 168.44,
\* resourceBlockRate about 2358.2, maxTransmissionCapacity about 235820 and
\* spectralEfficiency about 0.01179.
C5_AsStated ==
    C5_Literal /\ results["ofdm"] # <<>> =>
        LET r == results["ofdm"][1]
        IN  /\ Near(r.resourceElementRate, Dec(14037, 3), Dec(1, 3))
            /\ Near(r.ofdmSymbolRate, Dec(16844, 2), Dec(1, 2))
            /\ Near(r.resourceBlockRate, Dec(23582, 1), Dec(1, 1))
            /\ Near(r.maxTransmissionCapacity, Whole(235820), Whole(10))
            /\ Near(r.spectralEfficiency, Dec(1179, 5), Dec(1, 5))

\* C5 (amended): for the OFDM calculator with modulationOrder 4, codingRate
\* 0.5, symbolDuration 66.67, cyclicPrefixRatio 0.07, 12 resource elements
\* per symbol, 14 symbols per resource block, 100 parallel resource blocks
\* and bandwidth 20000000 the result has resourceElementRate about 14.018
\* (1000 / 71.3369), ofdmSymbolRate about 168.22, resourceBlockRate about
\* 2355.0, maxTransmissionCapacity about 235500 and spectralEfficiency about
\* 0.01178.
C5_OFDMLiteral ==
    C5_Literal /\ results["ofdm"] # <<>> =>
        LET r == results["ofdm"][1]
        IN  /\ Near(r.resourceElementRate, Dec(14018, 3), Dec(1, 3))
            /\ Near(r.ofdmSymbolRate, Dec(16822, 2), Dec(1, 2))
            /\ Near(r.resourceBlockRate, Dec(23550, 1), Dec(1, 1))
            /\ Near(r.maxTransmissionCapacity, Whole(235500), Whole(10))
            /\ Near(r.spectralEfficiency, Dec(1178, 5), Dec(1, 5))

\* The literal scenario of the OFDM calculator has been calculated
C5_Witness ==
    /\ C5_Literal
    /\ results["ofdm"] # <<>>
    /\ params["ofdm"] = OFDMDefaults

\* C6: the inputs that are accepted but not used do not influence any
\* result: the result record stored for a digital chain record is the one of
\* every record that differs from it only in sourceBitRate and
\* interleaverDepth, and the result record stored for an OFDM record is the
\* one of every record that differs from it only in subcarrierSpacing.
C6_UnusedInputs ==
    /\ results["wireless"] # <<>> =>
          \A q \in WirelessInputs :
              (\A f \in Fields("wireless") \ {"sourceBitRate", "interleaverDepth"} :
                    q[f] = params["wireless"][f])
              => WirelessResults(q) = results["wireless"][1]
    /\ results["ofdm"] # <<>> =>
          \A q \in OFDMInputs :
              (\A f \in Fields("ofdm") \ {"subcarrierSpacing"} :
                    q[f] = params["ofdm"][f])
              => OFDMResults(q) = results["ofdm"][1]

\* A digital chain record whose unused inputs are not the defaults has been
\* calculated, and its results are finite
C6_Witness ==
    /\ results["wireless"] # <<>>
    /\ params["wireless"].sourceBitRate = Whole(128000)
    /\ params["wireless"].interleaverDepth = Whole(-2)
    /\ IsFinite(results["wireless"][1].burstFormatterRate)
    /\ ~IsZero(results["wireless"][1].burstFormatterRate)

\* ------------------------------------------------------------------------
\* Properties of the explanation panel
\* ------------------------------------------------------------------------

\* C7: while one explanation request is in flight the user can trigger a
\* second one.  A request in flight disables the button of the panel that
\* sent it and of no other: the mounted panel is loading exactly when a
\* request of its own is in flight, so a panel mounted while the request of
\* an earlier panel is in flight takes a click, and two requests are in
\* flight at the same time.
C7_OnlyOwnRequestDisables ==
    panel # <<>> =>
        (panel[1].isLoading <=> \E r \in requests : r.inst = panel[1].inst)

\* Two explanation requests are in flight at the same time
C7_Witness ==
    /\ Cardinality(requests) = 2
    /\ \A r \in requests : r.overlapped
    /\ panel # <<>>
    /\ panel[1].isLoading

\* The step in which request r completes with a text
Succeeds(r) ==
    /\ r \in requests
    /\ r \notin requests'
    /\ last' # <<>>
    /\ last'[1].id = r.id
    /\ last'[1].outcome = "success"

\* C8 (as stated): when several explanation requests overlap, the
\* explanation shown after all of them have completed is the text of the
\* response that arrived last.
C8_AsStated ==
    [][\A r \in requests :
          Succeeds(r) /\ r.overlapped /\ requests' = {} /\ panel' # <<>>
          => panel'[1].explanation = last'[1].text]_vars

\* C8 (amended): overlapping requests were sent by different mounts of the
\* panel, and a response changes the panel that sent its request only: the
\* text of a response becomes the explanation shown when the panel that
\* sent the request is still mounted, and is dropped otherwise, whether the
\* response arrived last or not.
C8_OwnResponseWins ==
    [][\A r \in requests :
          Succeeds(r) =>
              IF panel # <<>> /\ panel[1].inst = r.inst
              THEN panel' # <<>> /\ panel'[1].explanation = last'[1].text
              ELSE panel' = panel]_vars

\* After two overlapping requests have completed the panel shows the text of
\* its own response, and the response that arrived last had another text
C8_Witness ==
    /\ requests = {}
    /\ last # <<>>
    /\ last[1].overlapped
    /\ last[1].outcome = "success"
    /\ panel # <<>>
    /\ panel[1].inst # last[1].inst
    /\ panel[1].explanation # ""
    /\ panel[1].explanation # last[1].text

\* The step in which request r completes with an error
FailsStep(r) ==
    /\ r \in requests
    /\ r \notin requests'
    /\ last' # <<>>
    /\ last'[1].id = r.id
    /\ last'[1].outcome = "error"

\* C9: a failed explanation request (transport failure, non-2xx status or
\* malformed JSON) never changes or hides the scenario's result record:
\* results, params and the visibility of the results card are the same
\* before and after the failure.
C9_FailureKeepsResults ==
    [][\A r \in requests :
          FailsStep(r) =>
              /\ results' = results
              /\ params' = params
              /\ showAI' = showAI
              /\ activeTab' = activeTab
              /\ (results'[activeTab'] # <<>>) = (results[activeTab] # <<>>)]_vars

\* A request has failed while the results of its scenario were shown
C9_Witness ==
    /\ last # <<>>
    /\ last[1].outcome = "error"
    /\ toast = <<ErrorToast(<<"Unexpected token in JSON">>)>>
    /\ results[activeTab] # <<>>
    /\ panel # <<>>
    /\ panel[1].inst = last[1].inst

\* The response is a member of description, a sequence of text parts
Contains(description, part) == \E i \in DOMAIN description : description[i] = part

\* C10: when the explanation service answers with a non-2xx status the
\* attempt ends as a failure: the explanation text is left unchanged and the
\* error shown to the user contains the status code and the response body.
C10_NonOkIsFailure ==
    [][\A r \in requests : \A response \in Responses :
          (response.status < 200 \/ response.status > 299)
          /\ settles(r, <<response>>)
          => /\ last'[1].outcome = "error"
             /\ panel' # <<>> => panel'[1].explanation = panel[1].explanation
             /\ toast'[1].title = "Error"
             /\ toast'[1].variant = "destructive"
             /\ Contains(toast'[1].description, ToString(response.status))
             /\ Contains(toast'[1].description, response.body)]_vars

\* The panel's request was answered with status 429: the error is shown and
\* the panel has no explanation
C10_Witness ==
    /\ last # <<>>
    /\ last[1].outcome = "error"
    /\ toast = <<ErrorToast(<<"API request failed with status ", "429", ": ",
                              BodyQuota>>)>>
    /\ panel # <<>>
    /\ panel[1].inst = last[1].inst
    /\ panel[1].explanation = ""
    /\ ~panel[1].isLoading

\* The step in which the mounted panel's request r is answered with a 2xx
\* response whose body is a JSON value with properties
AnsweredOk(r, response) ==
    /\ panel # <<>>
    /\ panel[1].inst = r.inst
    /\ ResponseOk(response)
    /\ JSONParse(response.body).ok
    /\ ~Nullish(JSONParse(response.body).value)
    /\ settles(r, <<response>>)

FailureResponse(response) ==
    \/ response.status < 200
    \/ response.status > 299
    \/ response.body \in {BodyHtml, BodyNull}

\* The step has shown exactly one notification for request r, the error
ErrorShownOnce(r) ==
    /\ last' # <<>>
    /\ last'[1].id = r.id
    /\ last'[1].notified = <<"Error">>
    /\ Len(toast') = 1
    /\ toast'[1].title = "Error"
    /\ toast'[1].variant = "destructive"
    /\ r.id <= sent'
    /\ \A q \in requests' : q.id # r.id

\* C12: every failure kind of an explanation attempt (the fetch rejects, the
\* status is outside 2xx, the body is no JSON or is null) shows exactly one
\* error notification for that attempt, an attempt that succeeds shows
\* exactly one success notification, and no attempt shows both; an attempt
\* that has completed is no longer in flight and shows nothing later.
C12_OneNotificationPerAttempt ==
    [][\A r \in requests :
          /\ settles(r, <<>>) => ErrorShownOnce(r)
          /\ \A response \in Responses :
                settles(r, <<response>>) =>
                    IF FailureResponse(response)
                    THEN ErrorShownOnce(r)
                    ELSE /\ last'[1].id = r.id
                         /\ last'[1].notified = <<"AI Explanation Generated">>
                         /\ toast' = <<GeneratedToast>>]_vars

\* The second request sent was the last to complete and its fetch was
\* rejected: its only notification is the error
C12_Witness ==
    /\ last # <<>>
    /\ last[1].id = 2
    /\ last[1].outcome = "error"
    /\ last[1].notified = <<"Error">>
    /\ toast = <<ErrorToast(<<"Failed to fetch">>)>>
    /\ requests = {}

\* The identifiers of a set of requests
Ids(rs) == {q.id : q \in rs}

\* C13: explanation requests are never retried automatically.  A request
\* is sent by a click on Get AI Explanation and by nothing else, one request
\* per click, so the requests sent are at most the clicks; the step in which
\* a request completes, failed or not, sends nothing.
C13_NoAutomaticRetry ==
    [][/\ (sent' # sent \/ ~(Ids(requests') \subseteq Ids(requests)))
          => /\ getExplanation
             /\ sent' = sent + 1
             /\ Ids(requests') = Ids(requests) \cup {sent'}
       /\ \A r \in requests :
             (r.id \notin Ids(requests')) =>
                 /\ sent' = sent
                 /\ Ids(requests') = Ids(requests) \ {r.id}]_vars

\* A request has failed, and the panel that sent it has sent another one
\* after a new click
C13_Witness ==
    /\ last # <<>>
    /\ last[1].outcome = "error"
    /\ \E q \in requests : q.id > last[1].id /\ q.inst = last[1].inst
    /\ panel # <<>>
    /\ panel[1].inst = last[1].inst
    /\ panel[1].isLoading

\* The mounted panel shows its form, is not loading and has no API key: the
\* key field is empty or holds only white space
KeyMissing ==
    /\ panel # <<>>
    /\ panel[1].explanation = ""
    /\ ~panel[1].isLoading
    /\ Trim(panel[1].apiKey) = <<>>

\* C14 (as stated): when the API key is missing an explanation attempt
\* sends no request, leaves isLoading and explanation unchanged, and the
\* user is shown the "API Key Required" message.
C14_AsStated ==
    KeyMissing /\ sent < MaxRequests =>
        ENABLED (/\ getExplanation
                 /\ toast' = <<KeyRequiredToast>>
                 /\ UNCHANGED <<panel, requests, sent>>)

\* C14 (amended): when the API key is missing the Get AI Explanation button
\* is disabled, so no explanation attempt can be made: no request is ever
\* sent without a key, isLoading and explanation stay as they are, and the
\* "API Key Required" message of getExplanation is never shown.
C14_NoAttemptWithoutKey ==
    /\ toast # <<KeyRequiredToast>>
    /\ \A r \in requests : Trim(r.key) # <<>>
    /\ KeyMissing => ~ENABLED getExplanation

\* A key of white space only has been typed into the mounted panel
C14_Witness ==
    /\ KeyMissing
    /\ panel[1].apiKey = <<" ">>
    /\ sent < MaxRequests
    /\ requests = {}

\* ------------------------------------------------------------------------
\* Properties of a calculate click
\* ------------------------------------------------------------------------

\* C15: each calculate click replaces the scenario's result record with a
\* record built from the parameter record as it is at the click: after the
\* click results is the calculator applied to those parameters, whatever was
\* stored before; the record stored before is not modified, so a prompt that
\* was built from it and is on its way to the service still lists it.
C15_CalculateReplaces ==
    [][\A s \in Scenarios :
          calculate(s) =>
              /\ results'[s] = <<NewResults(s, params[s])>>
              /\ \A t \in Scenarios \ {s} : results'[t] = results[t]
              /\ requests' = requests
              /\ last' = last]_vars

\* A result record has been replaced: the record stored now is the one of
\* the parameters as they are, and a request in flight lists the record
\* that was stored before
C15_Witness ==
    /\ results[activeTab] # <<>>
    /\ results[activeTab][1] = Calculated[activeTab][params[activeTab]].newResults[1]
    /\ \E r \in requests :
          /\ r.prompt.scenario = ToUpperCase(activeTab)
          /\ r.prompt.results # results[activeTab][1]
          /\ r.prompt.results = Calculated[activeTab][Defaults(activeTab)].newResults[1]

\* C16: invoking any of the four calculators leaves its parameter record
\* unchanged: every field of params has the same value after the calculate
\* click as before it, in the scenario calculated and in the others.
C16_CalculateKeepsParams ==
    [][\A s \in Scenarios :
          calculate(s) =>
              /\ \A f \in Fields(s) : params'[s][f] = params[s][f]
              /\ params' = params]_vars

\* A record that is not the default one and has a field at 0 has been
\* calculated
C16_Witness ==
    /\ results[activeTab] # <<>>
    /\ params[activeTab] # Defaults(activeTab)
    /\ \E f \in Fields(activeTab) : IsZero(params[activeTab][f])

\* C17: calculation is deterministic and repeatable.  While the parameter
\* record is left as it is, a calculate click on a scenario that has a
\* result record stores an identical record and shows the same toast,
\* whatever was done in between (the panel shown or hidden, a key typed, an
\* explanation requested, answered or discarded).
C17_RepeatedCalculate ==
    [][\A s \in Scenarios :
          calculate(s) /\ results[s] # <<>> =>
              /\ results'[s] = results[s]
              /\ toast' = <<CompleteToast(s, results[s][1])>>]_vars

\* A second calculate click after an explanation request of the same
\* record has completed: the toast of the request has given way to the
\* toast of the calculation, and the panel is still mounted
C17_Witness ==
    /\ last # <<>>
    /\ results[activeTab] # <<>>
    /\ toast = <<CompleteToast(activeTab, results[activeTab][1])>>
    /\ panel # <<>>
    /\ panel[1].inst = last[1].inst

\* A step of scenario s: a field edit, a calculate click or a click on the
\* Show/Hide AI Explanation button
ScenarioStep(s) ==
    \/ \E f \in Fields(s) : \E v \in InputTexts : handleInputChange(s, f, v)
    \/ calculate(s)
    \/ toggleAI(s)

\* C18: the four scenarios share no state: a field edit, a calculate click
\* or an AI-panel toggle in one scenario leaves the params, the results and
\* the showAI of the other three scenarios unchanged.
C18_ScenariosShareNoState ==
    [][\A s \in Scenarios :
          ScenarioStep(s) =>
              \A t \in Scenarios \ {s} :
                  /\ params'[t] = params[t]
                  /\ results'[t] = results[t]
                  /\ showAI'[t] = showAI[t]]_vars

\* A scenario has been edited, calculated and its panel asked for, and the
\* other three scenarios have their defaults, no results and no panel
C18_Witness ==
    /\ params[activeTab] # Defaults(activeTab)
    /\ results[activeTab] # <<>>
    /\ showAI[activeTab]
    /\ \A t \in Scenarios \ {activeTab} :
          /\ params[t] = Defaults(t)
          /\ results[t] = <<>>
          /\ ~showAI[t]

\* The prompt lists the results that the calculator of its scenario produces
\* for the parameters it lists
PromptConsistent(prompt) ==
    \E s \in Scenarios :
        /\ prompt.scenario = ToUpperCase(s)
        /\ <<prompt.results>> = Calculated[s][prompt.params].newResults

\* C19: whenever an explanation request is issued, the results listed in
\* its prompt are exactly the results the scenario's calculator produces for
\* the parameters listed in the same prompt; parameters edited after the
\* last calculation are never sent together with results computed from
\* older parameters.
C19_PromptConsistent ==
    \A r \in requests : PromptConsistent(r.prompt)

\* C20: within one mounted explanation panel the Get AI Explanation button
\* cannot be triggered while isLoading is true, so at most one request
\* issued by that panel instance is in flight at any time.
C20_OneRequestPerPanel ==
    /\ \A q, r \in requests : q.inst = r.inst => q = r
    /\ panel # <<>> /\ panel[1].isLoading => ~ENABLED getExplanation

\* The mounted panel has a key and a request in flight, and is loading; a
\* further request is within the bound of the model
C20_Witness ==
    /\ panel # <<>>
    /\ panel[1].isLoading
    /\ Trim(panel[1].apiKey) # <<>>
    /\ panel[1].explanation = ""
    /\ sent < MaxRequests
    /\ \E r \in requests : r.inst = panel[1].inst

\* ------------------------------------------------------------------------
\* Properties of the panel over time
\* ------------------------------------------------------------------------

\* The mounted panel is loading
Loading == panel # <<>> /\ panel[1].isLoading

\* C21: isLoading is true only between the start of a request and its
\* completion: a panel that is loading has a request of its own in flight,
\* and, the network call settling in the end, a panel that is loading stops
\* loading, whether its request ends in success, a status outside 2xx, a
\* body that is no JSON or a rejected fetch.
C21_LoadingEnds ==
    /\ [](Loading => \E r \in requests : r.inst = panel[1].inst)
    /\ Loading ~> ~Loading

\* The request of the mounted panel has failed and the panel has stopped
\* loading, its form shown again with the key kept
C21_Witness ==
    /\ panel # <<>>
    /\ ~panel[1].isLoading
    /\ last # <<>>
    /\ last[1].inst = panel[1].inst
    /\ last[1].outcome = "error"
    /\ requests = {}

\* C22: in every reachable state of a scenario showAI = true implies that
\* results is not null, and the explanation panel is mounted only with a
\* result record; while the scenario stays mounted results never returns to
\* null after the first calculation.
C22_PanelHasResults ==
    /\ [](/\ \A s \in Scenarios : showAI[s] => results[s] # <<>>
          /\ panel # <<>> => showAI[activeTab] /\ results[activeTab] # <<>>)
    /\ [][\A s \in Scenarios :
             results[s] # <<>> /\ activeTab' = activeTab => results'[s] # <<>>]_vars

\* The panel has been asked for and is mounted with the result record of
\* its scenario, and nothing has been sent yet
C22_Witness ==
    /\ showAI[activeTab]
    /\ results[activeTab] # <<>>
    /\ panel # <<>>
    /\ sent = 0

\* The panel that is mounted stays mounted in the step
SamePanel == panel # <<>> /\ panel' # <<>> /\ panel'[1].inst = panel[1].inst

\* C23: within one mounted explanation panel every successful request
\* leaves an explanation that is not empty; while the explanation is not
\* empty no request can be started, and the only way back to the request
\* form is Generate New Explanation, which clears the explanation and the
\* API key; after a failed request the explanation is empty still and the
\* API key is kept, so that the button is enabled again for a retry.
C23_PanelCycle ==
    /\ [](panel # <<>> /\ panel[1].explanation # "" => ~ENABLED getExplanation)
    /\ [][SamePanel =>
             /\ \A r \in requests :
                   Succeeds(r) /\ r.inst = panel[1].inst =>
                       /\ panel'[1].explanation # ""
                       /\ ~panel'[1].isLoading
             /\ panel[1].explanation # "" =>
                   /\ sent' = sent
                   /\ Ids(requests') \subseteq Ids(requests)
             /\ panel[1].explanation # "" /\ panel'[1].explanation = "" =>
                   /\ generateNew
                   /\ panel'[1].apiKey = <<>>
             /\ \A r \in requests :
                   FailsStep(r) /\ r.inst = panel[1].inst =>
                       /\ panel'[1].explanation = ""
                       /\ panel'[1].apiKey = panel[1].apiKey
                       /\ Trim(panel[1].apiKey) # <<>> => ~ButtonDisabled(panel'[1])]_vars

\* Generate New Explanation has been clicked on the panel whose request had
\* succeeded: the form is back, the explanation and the key are empty
C23_Witness ==
    /\ panel # <<>>
    /\ panel[1].explanation = ""
    /\ panel[1].apiKey = <<>>
    /\ ~panel[1].isLoading
    /\ last # <<>>
    /\ last[1].inst = panel[1].inst
    /\ last[1].outcome = "success"

\* ------------------------------------------------------------------------
\* Properties of a field edit
\* ------------------------------------------------------------------------

\* C24: a field edit changes only the named field of the parameter record
\* and leaves the other fields, the stored result record and showAI
\* unchanged.  Hence results is null or the calculator applied to the
\* parameters as they were at the most recent calculate click: a calculate
\* click stores the record of the parameters of the click, and no other
\* step of the mounted scenario changes the record stored.
C24_EditKeepsResults ==
    [][\A s \in Scenarios :
          /\ \A f \in Fields(s) : \A v \in InputTexts :
                handleInputChange(s, f, v) =>
                    /\ params'[s][f] = ParseOrZero(v)
                    /\ \A g \in Fields(s) \ {f} : params'[s][g] = params[s][g]
                    /\ results' = results
                    /\ showAI' = showAI
          /\ IF calculate(s)
             THEN results'[s] = Calculated[s][params[s]].newResults
             ELSE activeTab' = activeTab => results'[s] = results[s]]_vars

\* A field has been edited after the calculation: the record stored is the
\* one of the parameters of the click, the defaults, and not the one of the
\* parameters as they are now
C24_Witness ==
    /\ edits > 0
    /\ results[activeTab] # <<>>
    /\ results[activeTab] = Calculated[activeTab][Defaults(activeTab)].newResults
    /\ results[activeTab] # Calculated[activeTab][params[activeTab]].newResults

\* ------------------------------------------------------------------------
\* Properties of the cellular design calculator
\* ------------------------------------------------------------------------

\* x is a finite number that is not 0
FiniteNonZero(x) == IsFinite(x) /\ ~IsZero(x)

\* (1 - blockingProbability) / 0.2
EfficiencyOf(blockingProbability) ==
    NumDiv(NumSub(One, blockingProbability), Dec(2, 1))

\* The result records of the cellular inputs that have the blocking
\* probability bp
CellularResultsWith(bp) ==
    {Calculated["cellular"][q].newResults[1] :
        q \in {q \in CellularInputs : q.blockingProbability = bp}}

====
